---------------------------- MODULE Spec2Model ----------------------------
(***************************************************************************)
(* Hospital appointment scheduler: the slot grid and the placement of      *)
(* appointments into its cells (DayView, WeekView), and the schedule       *)
(* state controller (ScheduleView with the useAppointments hook).          *)
(*                                                                         *)
(* Time is local wall-clock time in minutes since Monday 2024-01-01 00:00, *)
(* so a Date is an integer and day d starts at d * MinutesPerDay.          *)
(***************************************************************************)
EXTENDS Integers, Sequences, FiniteSets, TLC

VARIABLES
    \* ---- DayView / WeekView (one render of a view) ----
    cfg,            \* DEFAULT_CALENDAR_CONFIG: startHour, endHour, slotDuration
    gview,          \* which view component renders: "day" or "week"
    viewDate,       \* DayView's date prop / WeekView's weekStartDate prop
    appts,          \* the appointments prop of the view
    hour,           \* outer loop variable of the slot generator
    minute,         \* inner loop variable of the slot generator
    slots,          \* the slots array being built
    gpc,            \* position of the render: "loop", "place", "done"
    dayCells,       \* DayView: slot index -> getAppointmentsForSlot(slot)
    weekCells,      \* WeekView: slot index -> column -> getAppointmentsForDayAndSlot
    \* ---- ScheduleView / useAppointments ----
    selectedDoctorId, selectedDate, view,   \* ScheduleView's props
    weekStart,      \* useMemo(startOfWeek(selectedDate, {weekStartsOn: 1}))
    params,         \* the params object of the current render of the hook
    deps,           \* the params of the previous render (the effect's old deps)
    appointments, loading, error,           \* the hook's useState cells
    doctor,         \* useMemo(getDoctorById(doctorId))
    hpc,            \* "unmounted", "effect" (effect pending), "rerender", "idle", "crashed"
    uncaught,       \* an exception left useAppointments during a render
    shown,          \* what ScheduleView's last render put in the calendar area
    lastQuery,      \* history: the last call made to appointmentService
    lastResult,     \* history: the list that call returned (before the sort)
    lastOutcome,    \* history: "none", "ok" or "failed" for the last run of the effect
    selGen,         \* history: number of selections set so far
    renderedGen,    \* history: the selection the current render belongs to
    depsGen,        \* history: the selection the previous render belonged to
    appliedGen      \* history: the selection whose result was last written

gridVars == <<cfg, gview, viewDate, appts, hour, minute, slots, gpc, dayCells, weekCells>>

hookVars == <<selectedDoctorId, selectedDate, view, weekStart, params, deps,
              appointments, loading, error, doctor, hpc, uncaught, shown,
              lastQuery, lastResult, lastOutcome, selGen, renderedGen, depsGen,
              appliedGen>>

vars == <<gridVars, hookVars>>

-----------------------------------------------------------------------------
(* Bounds of the model *)

\* The slot generator's loop is cut off after this many slots (it only is
\* when slotDuration <= 0, where the source's loop never ends).
MaxSlots == 6

\* Longest appointments prop handed to a view.
MaxAppts == 2

\* Number of selection changes in one behaviour of the controller.
MaxSelections == 3

MinutesPerDay == 24 * 60

-----------------------------------------------------------------------------
(* Dates (date-fns and Date, local time, no DST) *)

startOfDay(t) == (t \div MinutesPerDay) * MinutesPerDay

addDays(t, n) == t + n * MinutesPerDay

\* Date.prototype.getDay(): 0 = Sunday .. 6 = Saturday; day 0 is a Monday.
getDay(t) == ((t \div MinutesPerDay) + 1) % 7

\* Date.prototype.setHours(h, m, 0, 0) on a copy of t: minutes outside 0..59
\* carry into the hours.
setHours(t, h, m) == startOfDay(t) + h * 60 + m

\* d.setMinutes(d.getMinutes() + n)
addMinutes(t, n) == t + n

isBefore(a, b) == a < b

isAfter(a, b) == a > b

\* format(start, 'HH:mm'), as the pair <<HH, mm>>
formatHHmm(t) == <<(t % MinutesPerDay) \div 60, t % 60>>

isSameCalendarDay(a, b) == startOfDay(a) = startOfDay(b)

-----------------------------------------------------------------------------
(* Inputs of one render of DayView or WeekView *)

\* Calendar configurations: the window starts at 08:00; durations that
\* divide 60, that do not, and non-positive ones.
Configs ==
    [startHour : {8}, endHour : {9, 10}, slotDuration : {-30, 0, 30, 45, 60, 90}]

\* Days an appointment may lie on: Monday and Tuesday of the week shown.
ApptDays == {0, 1}

\* Start times of day (08:15, 08:30) and lengths in minutes of the
\* appointments; a length <= 0 is a malformed appointment.
ApptStartMinutes == {495, 510}

ApptLengths == {-5, 0, 30, 45}

ApptTimes ==
    { [startTime |-> d * MinutesPerDay + m, endTime |-> d * MinutesPerDay + m + l] :
        d \in ApptDays, m \in ApptStartMinutes, l \in ApptLengths }

\* Appointment[] of length n; the id is unique (the position in the list).
ApptLists(n) ==
    { [i \in 1..n |-> [id |-> i, startTime |-> f[i].startTime, endTime |-> f[i].endTime]] :
        f \in [1..n -> ApptTimes] }

ViewProps ==
    { [v |-> "day", date |-> d * MinutesPerDay + 600] : d \in {0, 1} }
        \cup { [v |-> "week", date |-> 0] }

-----------------------------------------------------------------------------
(* DayView.timeSlots / WeekView.timeSlots: the slot generator, step by step *)

\* One slot: start on the anchor date at hour:minute, end slotDuration later.
MakeSlot(anchor, h, m, slotDuration) ==
    LET start == setHours(anchor, h, m)
    IN  [start |-> start, end |-> addMinutes(start, slotDuration),
         label |-> formatHHmm(start)]

\* Body of the inner loop: push a slot, then minute += slotDuration.
LoopBody ==
    /\ gpc = "loop"
    /\ hour < cfg.endHour
    /\ minute < 60
    /\ Len(slots) < MaxSlots
    /\ slots' = Append(slots, MakeSlot(viewDate, hour, minute, cfg.slotDuration))
    /\ minute' = minute + cfg.slotDuration
    /\ UNCHANGED <<cfg, gview, viewDate, appts, hour, gpc, dayCells, weekCells>>
    /\ UNCHANGED hookVars

\* The inner loop ends (minute >= 60): hour++, and it starts again at 0.
LoopNextHour ==
    /\ gpc = "loop"
    /\ hour < cfg.endHour
    /\ minute >= 60
    /\ hour' = hour + 1
    /\ minute' = 0
    /\ UNCHANGED <<cfg, gview, viewDate, appts, slots, gpc, dayCells, weekCells>>
    /\ UNCHANGED hookVars

\* The outer loop ends (hour >= endHour): the memo returns slots.
LoopExit ==
    /\ gpc = "loop"
    /\ hour >= cfg.endHour
    /\ gpc' = "place"
    /\ UNCHANGED <<cfg, gview, viewDate, appts, hour, minute, slots, dayCells, weekCells>>
    /\ UNCHANGED hookVars

-----------------------------------------------------------------------------
(* Placement *)

\* A bug DayView could have: closed-interval overlap (touching counts).
getAppointmentsForSlot_closed(list, slot) ==
    SelectSeq(list, LAMBDA apt : apt.startTime <= slot.end /\ apt.endTime >= slot.start)

\* DayView.getAppointmentsForSlot
getAppointmentsForSlot(list, slot) ==
    SelectSeq(list, LAMBDA apt :
        isBefore(apt.startTime, slot.end) /\ isAfter(apt.endTime, slot.start))

\* WeekView.weekDays
weekDays(weekStartDate) == [i \in 0..6 |-> addDays(weekStartDate, i)]

\* WeekView.getAppointmentsForDayAndSlot
getAppointmentsForDayAndSlot(list, date, slotStart, slotDuration) ==
    LET slotEnd == addMinutes(slotStart, slotDuration)
    IN  SelectSeq(list, LAMBDA apt :
            /\ isSameCalendarDay(apt.startTime, date)
            /\ isBefore(apt.startTime, slotEnd)
            /\ isAfter(apt.endTime, slotStart))

\* DayView's timeline: one row per slot.
PlaceDay ==
    /\ gpc = "place"
    /\ gview = "day"
    /\ dayCells' = [i \in 1..Len(slots) |-> getAppointmentsForSlot(appts, slots[i])]
    /\ gpc' = "done"
    /\ UNCHANGED <<cfg, gview, viewDate, appts, hour, minute, slots, weekCells>>
    /\ UNCHANGED hookVars

\* WeekView's table: one row per slot, one cell per day of the week.
PlaceWeek ==
    /\ gpc = "place"
    /\ gview = "week"
    /\ weekCells' =
          [i \in 1..Len(slots) |->
              [c \in 0..6 |->
                  getAppointmentsForDayAndSlot(appts, weekDays(viewDate)[c],
                                               slots[i].start, cfg.slotDuration)]]
    /\ gpc' = "done"
    /\ UNCHANGED <<cfg, gview, viewDate, appts, hour, minute, slots, dayCells>>
    /\ UNCHANGED hookVars

-----------------------------------------------------------------------------
(* The data layer: appointmentService over the mock store *)

\* undefined, for a string, a Date, a Doctor, the calendar area's view and
\* the service call
Undefined == "undefined"

NoDate == 0 - 1

NoDoctor == [id |-> Undefined, name |-> Undefined, specialty |-> Undefined]

NoView == [kind |-> "none", appointments |-> <<>>, doctor |-> NoDoctor, date |-> NoDate]

NoCall == [kind |-> "none"]

NoError == "null"

QueryFailure == "QueryFailure"

DoctorIds == {"doc-1", "doc-2", "doc-x"}

\* The doctors of the store; "doc-x" is not one of them.
MockDoctors == {"doc-1", "doc-2"}

Appt(id, doctorId, day, startMinute, length) ==
    [id |-> id, doctorId |-> doctorId,
     startTime |-> day * MinutesPerDay + startMinute,
     endTime |-> day * MinutesPerDay + startMinute + length]

\* The appointments of the store, in the store's order (not by time; a3 and
\* a2 start at the same time).
MockAppointments ==
    << Appt("a1", "doc-1", 0, 540, 30), Appt("a3", "doc-1", 0, 480, 45),
       Appt("a2", "doc-1", 0, 480, 30), Appt("a5", "doc-1", 6, 600, 30),
       Appt("a4", "doc-1", 2, 570, 60), Appt("a7", "doc-2", 0, 510, 30),
       Appt("a6", "doc-1", 7, 480, 30), Appt("a8", "doc-2", 6, 480, 30) >>

getDoctorById(doctorId) ==
    IF doctorId \in MockDoctors
    THEN [id |-> doctorId, name |-> doctorId, specialty |-> "general"]
    ELSE NoDoctor

getAppointmentsByDoctorAndDate(doctorId, date) ==
    SelectSeq(MockAppointments, LAMBDA apt :
        apt.doctorId = doctorId /\ isSameCalendarDay(apt.startTime, date))

getAppointmentsByDoctorAndDateRange(doctorId, startDate, endDate) ==
    SelectSeq(MockAppointments, LAMBDA apt :
        /\ apt.doctorId = doctorId
        /\ startOfDay(apt.startTime) >= startOfDay(startDate)
        /\ startOfDay(apt.startTime) <= startOfDay(endDate))

-----------------------------------------------------------------------------
(* ScheduleView: the selection and what it derives from it *)

\* Dates the caller selects: Monday 00:00, and Wednesday, Sunday and the
\* next Monday at 05:30.
SelectableDates == {0, 2 * MinutesPerDay + 330, 6 * MinutesPerDay + 330, 7 * MinutesPerDay + 330}

Views == {"day", "week"}

\* date-fns startOfWeek(date, {weekStartsOn}): back to the last weekStartsOn
\* day, at 00:00.
startOfWeek(date, weekStartsOn) ==
    LET day == getDay(date)
        diff == (IF day < weekStartsOn THEN 7 ELSE 0) + day - weekStartsOn
    IN  startOfDay(addDays(date, -diff))

\* A bug ScheduleView could have: the option is left out (weeks start on Sunday).
WeekStartOf_sunday(date) == startOfWeek(date, 0)

\* ScheduleView: const weekStart = useMemo(() => startOfWeek(selectedDate, { weekStartsOn: 1 }))
WeekStartOf(date) == startOfWeek(date, 1)

\* The params object ScheduleView hands to useAppointments.
UseAppointmentsParams(doctorId, date, v, ws) ==
    [doctorId |-> doctorId,
     date |-> date,
     startDate |-> IF v = "week" THEN ws ELSE NoDate,
     endDate |-> IF v = "week" THEN addDays(ws, 6) ELSE NoDate]

NoParams ==
    [doctorId |-> Undefined, date |-> NoDate, startDate |-> NoDate, endDate |-> NoDate]

\* The effect's dependency array [doctorId, date, startDate, endDate], compared
\* with Object.is: a string by value, a Date by identity.  selectedDate is a new
\* object exactly when the caller set a date (newDateObject), weekStart is
\* memoized on it, and addDays(weekStart, 6) is a new object in every render.
DepsChanged(old, new, newDateObject) ==
    \/ old.doctorId # new.doctorId
    \/ newDateObject
    \/ (old.startDate = NoDate) # (new.startDate = NoDate)
    \/ old.endDate # NoDate
    \/ new.endDate # NoDate

\* The calendar area of ScheduleView: the loading line, the error line, and
\* DayView or WeekView with their props when neither is shown.
CalendarArea(v, date, ws, apts, doc, isLoading, err) ==
    [loadingLine |-> isLoading,
     errorLine |-> err # NoError,
     view |-> IF ~isLoading /\ err = NoError
              THEN [kind |-> v, appointments |-> apts, doctor |-> doc,
                    date |-> IF v = "day" THEN date ELSE ws]
              ELSE NoView]

\* One render of ScheduleView with the props given.  The doctor memo is
\* recomputed when doctorId changed, and getDoctorById is called outside any
\* try block: if it throws, the exception leaves the hook and the render.
Render(doctorId, date, v, newDoctor, doctorFails, newDateObject, gen) ==
    /\ selectedDoctorId' = doctorId
    /\ selectedDate' = date
    /\ view' = v
    /\ selGen' = gen
    /\ IF newDoctor /\ doctorFails
       THEN /\ uncaught' = TRUE
            /\ hpc' = "crashed"
            /\ UNCHANGED <<weekStart, params, deps, doctor, shown, renderedGen, depsGen>>
       ELSE /\ weekStart' = WeekStartOf(date)
            /\ params' = UseAppointmentsParams(doctorId, date, v, weekStart')
            /\ deps' = params
            /\ doctor' = IF newDoctor THEN getDoctorById(doctorId) ELSE doctor
            /\ shown' = CalendarArea(v, date, weekStart', appointments, doctor', loading, error)
            /\ hpc' = IF hpc = "unmounted" \/ DepsChanged(params, params', newDateObject)
                      THEN "effect" ELSE "idle"
            /\ renderedGen' = gen
            /\ depsGen' = renderedGen
            /\ UNCHANGED uncaught
    /\ UNCHANGED <<appointments, loading, error, lastQuery, lastResult, lastOutcome, appliedGen>>
    /\ UNCHANGED gridVars

\* The first render.
Mount ==
    /\ hpc = "unmounted"
    /\ \E doctorFails \in BOOLEAN :
          Render(selectedDoctorId, selectedDate, view, TRUE, doctorFails, TRUE, 1)

\* The caller changes a prop.  React runs a pending effect of the last render
\* before it renders again, so no render finds hpc = "effect".
ChangeDoctor ==
    /\ hpc \in {"idle", "rerender"}
    /\ selGen < MaxSelections
    /\ \E d \in DoctorIds \ {selectedDoctorId}, doctorFails \in BOOLEAN :
          Render(d, selectedDate, view, TRUE, doctorFails, FALSE, selGen + 1)

ChangeDate ==
    /\ hpc \in {"idle", "rerender"}
    /\ selGen < MaxSelections
    /\ \E t \in SelectableDates :
          Render(selectedDoctorId, t, view, FALSE, FALSE, TRUE, selGen + 1)

ChangeView ==
    /\ hpc \in {"idle", "rerender"}
    /\ selGen < MaxSelections
    /\ \E v \in Views \ {view} :
          Render(selectedDoctorId, selectedDate, v, FALSE, FALSE, FALSE, selGen + 1)

\* The render that the effect's state updates ask for.
Rerender ==
    /\ hpc = "rerender"
    /\ Render(selectedDoctorId, selectedDate, view, FALSE, FALSE, FALSE, selGen)

-----------------------------------------------------------------------------
(* useAppointments: the fetch effect *)

RECURSIVE InsertByStartTime(_, _)
\* Insert apt after every element that does not start later than it.
InsertByStartTime(sorted, apt) ==
    IF sorted = <<>> THEN <<apt>>
    ELSE IF Head(sorted).startTime - apt.startTime <= 0
         THEN <<Head(sorted)>> \o InsertByStartTime(Tail(sorted), apt)
         ELSE <<apt>> \o sorted

RECURSIVE InsertionSort(_)
InsertionSort(data) ==
    IF data = <<>> THEN <<>>
    ELSE InsertByStartTime(InsertionSort(SubSeq(data, 1, Len(data) - 1)), data[Len(data)])

\* A bug the hook could have: the list is stored as the service returned it.
SortByStartTime_unsorted(data) == data

\* data.sort((a, b) => a.startTime - b.startTime): Array.prototype.sort is
\* stable, so elements that compare equal keep their order.
SortByStartTime(data) == InsertionSort(data)

\* A bug the hook could have: the effect reads the values of the render before.
EffectClosure_stale == [params |-> deps, gen |-> depsGen]

\* The values the effect closes over: those of the render that scheduled it.
EffectClosure == [params |-> params, gen |-> renderedGen]

\* A bug the hook could have: setLoading(false) at the end of the try block.
LoadingAfterEffect_noFinally(failed) == failed

\* setLoading(true) ... finally { setLoading(false) }
LoadingAfterEffect(failed) == FALSE

\* setError(null) ... catch (e) { setError(e) }
ErrorAfterEffect(failed) == IF failed THEN QueryFailure ELSE NoError

\* The call the effect makes.
QueryCall(p) ==
    IF p.startDate # NoDate /\ p.endDate # NoDate
    THEN [kind |-> "range", doctorId |-> p.doctorId,
          startDate |-> p.startDate, endDate |-> p.endDate]
    ELSE [kind |-> "date", doctorId |-> p.doctorId, date |-> p.date]

QueryResult(call) ==
    IF call.kind = "range"
    THEN getAppointmentsByDoctorAndDateRange(call.doctorId, call.startDate, call.endDate)
    ELSE getAppointmentsByDoctorAndDate(call.doctorId, call.date)

\* The effect, whole: its state updates are applied together when it ends,
\* and they ask for another render.
FetchEffect ==
    /\ hpc = "effect"
    /\ \E failed \in BOOLEAN :
          LET call == QueryCall(EffectClosure.params)
              data == QueryResult(call)
          IN  /\ lastQuery' = call
              /\ loading' = LoadingAfterEffect(failed)
              /\ error' = ErrorAfterEffect(failed)
              /\ IF failed
                 THEN /\ lastOutcome' = "failed"
                      /\ UNCHANGED <<appointments, lastResult, appliedGen>>
                 ELSE /\ appointments' = SortByStartTime(data)
                      /\ lastResult' = data
                      /\ appliedGen' = EffectClosure.gen
                      /\ lastOutcome' = "ok"
    /\ hpc' = "rerender"
    /\ UNCHANGED <<selectedDoctorId, selectedDate, view, weekStart, params, deps, doctor,
                   uncaught, shown, selGen, renderedGen, depsGen>>
    /\ UNCHANGED gridVars

-----------------------------------------------------------------------------
(* Specifications *)

\* The view variables while only the controller runs.
GridIdle ==
    /\ cfg = [startHour |-> 8, endHour |-> 10, slotDuration |-> 30]
    /\ gview = "day"
    /\ viewDate = 0
    /\ appts = <<>>
    /\ hour = 8
    /\ minute = 0
    /\ slots = <<>>
    /\ gpc = "off"
    /\ dayCells = <<>>
    /\ weekCells = <<>>

\* The controller's variables before the first render: useState's initial values.
HookUnmounted ==
    /\ weekStart = NoDate
    /\ params = NoParams
    /\ deps = NoParams
    /\ appointments = <<>>
    /\ loading = TRUE
    /\ error = NoError
    /\ doctor = NoDoctor
    /\ hpc = "unmounted"
    /\ uncaught = FALSE
    /\ shown = [loadingLine |-> FALSE, errorLine |-> FALSE, view |-> NoView]
    /\ lastQuery = NoCall
    /\ lastResult = <<>>
    /\ lastOutcome = "none"
    /\ selGen = 0
    /\ renderedGen = 0
    /\ depsGen = 0
    /\ appliedGen = 0

\* The controller: ScheduleView mounted with some selection.
Init ==
    /\ selectedDoctorId \in DoctorIds
    /\ selectedDate \in SelectableDates
    /\ view \in Views
    /\ HookUnmounted
    /\ GridIdle

Next ==
    \/ Mount
    \/ ChangeDoctor
    \/ ChangeDate
    \/ ChangeView
    \/ Rerender
    \/ FetchEffect

Spec == Init /\ [][Next]_vars

\* One render of a view: the props and the configuration are drawn, the
\* slot generator starts.
InitGrid ==
    /\ cfg \in Configs
    /\ \E p \in ViewProps : gview = p.v /\ viewDate = p.date
    /\ appts \in UNION { ApptLists(n) : n \in 0..MaxAppts }
    /\ hour = cfg.startHour
    /\ minute = 0
    /\ slots = <<>>
    /\ gpc = "loop"
    /\ dayCells = <<>>
    /\ weekCells = <<>>
    /\ selectedDoctorId = "doc-1"
    /\ selectedDate = 0
    /\ view = "day"
    /\ HookUnmounted

NextGrid ==
    \/ LoopBody
    \/ LoopNextHour
    \/ LoopExit
    \/ PlaceDay
    \/ PlaceWeek

SpecGrid == InitGrid /\ [][NextGrid]_vars

-----------------------------------------------------------------------------
(* Properties of the views (checked under SpecGrid) *)

\* Number of places of list that hold apt.
Occurrences(list, apt) == Cardinality({k \in 1..Len(list) : list[k] = apt})

Elements(list) == {list[k] : k \in 1..Len(list)}

WellFormed(apt) == apt.endTime > apt.startTime

\* Slot i of the grid moved to the calendar day of column c.
SlotOnDay(i, c) ==
    LET dayStart == startOfDay(addDays(viewDate, c))
    IN  [start |-> dayStart + (slots[i].start - startOfDay(slots[i].start)),
         end |-> dayStart + (slots[i].end - startOfDay(slots[i].start))]

\* C1: in week mode the cell of every day column c and every slot i holds
\* exactly the (well-formed) appointments that start on that column's day and
\* overlap the slot's time-of-day window on that day.
C1_WeekCellIsDayAndSlotOverlap ==
    (gpc = "done" /\ gview = "week") =>
        \A i \in 1..Len(slots), c \in 0..6 :
            { a \in Elements(weekCells[i][c]) : WellFormed(a) }
              = { a \in Elements(appts) :
                    /\ WellFormed(a)
                    /\ isSameCalendarDay(a.startTime, addDays(viewDate, c))
                    /\ a.startTime < SlotOnDay(i, c).end
                    /\ a.endTime > SlotOnDay(i, c).start }

\* C2: for startHour < endHour and slotDuration > 0 the generated slots start
\* at startHour:00, are contiguous, number
\* floor((endHour - startHour) * 60 / slotDuration), and none ends after
\* endHour:00.
C2_SlotsContiguousCountedTruncated ==
    (gpc \in {"place", "done"} /\ cfg.startHour < cfg.endHour /\ cfg.slotDuration > 0) =>
        /\ Len(slots) = ((cfg.endHour - cfg.startHour) * 60) \div cfg.slotDuration
        /\ Len(slots) > 0 => slots[1].start = setHours(viewDate, cfg.startHour, 0)
        /\ \A i \in 1..(Len(slots) - 1) :
              slots[i].end = slots[i + 1].start /\ slots[i].start < slots[i + 1].start
        /\ \A i \in 1..Len(slots) : slots[i].end <= setHours(viewDate, cfg.endHour, 0)

\* C3: in day mode an appointment is in a slot's result, once, when it starts
\* before the slot's end and ends after the slot's start, and not at all
\* otherwise; so one that spans k slots is in exactly those k results.
C3_DaySlotHalfOpenOverlap ==
    (gpc = "done" /\ gview = "day") =>
        \A i \in 1..Len(slots), k \in 1..Len(appts) :
            Occurrences(dayCells[i], appts[k]) =
                IF appts[k].startTime < slots[i].end /\ appts[k].endTime > slots[i].start
                THEN 1 ELSE 0

\* A day rendered in which one appointment lies in two slots' results and ends
\* exactly where a third slot starts, in whose result it is not.
C3_Witness ==
    /\ gpc = "done"
    /\ gview = "day"
    /\ \E k \in 1..Len(appts), i, j, t \in 1..Len(slots) :
          /\ i # j
          /\ Occurrences(dayCells[i], appts[k]) = 1
          /\ Occurrences(dayCells[j], appts[k]) = 1
          /\ appts[k].endTime = slots[t].start
          /\ Occurrences(dayCells[t], appts[k]) = 0

\* C4: an appointment with endTime <= startTime is in no slot's result, in
\* day mode or in week mode.
C4_MalformedNeverPlaced ==
    gpc = "done" =>
        \A k \in 1..Len(appts) :
            appts[k].endTime <= appts[k].startTime =>
                /\ gview = "day" =>
                      \A i \in 1..Len(slots) : appts[k] \notin Elements(dayCells[i])
                /\ gview = "week" =>
                      \A i \in 1..Len(slots), c \in 0..6 :
                          appts[k] \notin Elements(weekCells[i][c])

\* C8: with slotDuration <= 0 the generator emits no slot.
C8_NonPositiveDurationEmitsNoSlot ==
    cfg.slotDuration <= 0 => slots = <<>>

-----------------------------------------------------------------------------
(* Properties of the controller (checked under Spec) *)

\* The step in which the effect runs.
EffectStep == hpc = "effect" /\ hpc' = "rerender"

\* The Monday 00:00 of the week that holds t: weeks run Monday to Sunday and
\* day 0 is a Monday.
MondayOf(t) ==
    CHOOSE w \in {(7 * n) * MinutesPerDay : n \in 0..4} :
        w <= t /\ t < w + 7 * MinutesPerDay

\* The service call the selection (doctorId, date, v) asks for.
CallFor(doctorId, date, v) ==
    IF v = "week"
    THEN [kind |-> "range", doctorId |-> doctorId,
          startDate |-> MondayOf(date), endDate |-> MondayOf(date) + 6 * MinutesPerDay]
    ELSE [kind |-> "date", doctorId |-> doctorId, date |-> date]

\* C5: whenever the effect writes appointments, what it writes is the result
\* of the query of the selection set last, and the selections whose results
\* are written follow each other in the order they were set.
C5_NoStaleResultApplied ==
    [][(EffectStep /\ lastOutcome' = "ok") =>
          /\ appliedGen' = selGen'
          /\ appliedGen' >= appliedGen
          /\ lastQuery'.doctorId = selectedDoctorId'
          /\ lastQuery' = CallFor(selectedDoctorId', selectedDate', view')]_vars

\* Results were written for the third selection, after those of an earlier one.
C5_Witness ==
    /\ selGen = MaxSelections
    /\ appliedGen = selGen
    /\ lastOutcome = "ok"
    /\ hpc = "rerender"
    /\ depsGen < renderedGen

\* C6: a run of the effect whose query failed ends with error set to the
\* failure and loading false, and loading is false after every run.
C6_FailureSetsErrorAndClearsLoading ==
    /\ lastOutcome = "failed" => (error = QueryFailure /\ loading = FALSE)
    /\ lastOutcome # "none" => loading = FALSE

\* A query failed after an earlier one had succeeded.
C6_Witness ==
    /\ lastOutcome = "failed"
    /\ appliedGen > 0
    /\ hpc = "rerender"

\* C7: no failure of a backing read leaves useAppointments as an exception.
C7_NoReadFailureEscapes == uncaught = FALSE

\* C9: the effect's call is, in week mode, the range from the Monday of the
\* selected date's week to six days later and, in day mode, the selected date
\* alone; and WeekView is given that Monday.
C9_QueryWindow ==
    [][/\ EffectStep => lastQuery' = CallFor(selectedDoctorId', selectedDate', view')
       /\ shown'.view.kind = "week" => shown'.view.date = MondayOf(selectedDate')]_vars

\* A Sunday is selected in week mode: the range queried starts on the Monday
\* six days before, and WeekView is shown that week.
C9_Witness ==
    /\ getDay(selectedDate) = 0
    /\ view = "week"
    /\ lastQuery.kind = "range"
    /\ lastQuery.startDate = selectedDate - 330 - 6 * MinutesPerDay
    /\ shown.view.kind = "week"
    /\ shown.view.date = lastQuery.startDate

\* The place of apt in list.
IndexOf(list, apt) == CHOOSE k \in 1..Len(list) : list[k] = apt

\* C10: once a query succeeded, appointments holds the elements of the query
\* result, each once, ascending by start time, and those with equal start
\* times in the order the service returned them.
C10_SortedPermutation ==
    appliedGen > 0 =>
        /\ Len(appointments) = Len(lastResult)
        /\ \A a \in Elements(lastResult) \cup Elements(appointments) :
              Occurrences(appointments, a) = Occurrences(lastResult, a)
        /\ \A i, j \in 1..Len(appointments) :
              i < j =>
                /\ appointments[i].startTime <= appointments[j].startTime
                /\ appointments[i].startTime = appointments[j].startTime =>
                      IndexOf(lastResult, appointments[i]) < IndexOf(lastResult, appointments[j])

\* A result that was not in order and held two appointments starting together.
C10_Witness ==
    /\ appliedGen > 0
    /\ appointments # lastResult
    /\ \E i, j \in 1..Len(appointments) :
          i < j /\ appointments[i].startTime = appointments[j].startTime

\* C11: whenever ScheduleView's render shows DayView or WeekView (loading is
\* false and error is null), the appointments handed to the view are those
\* the query of the current selection (doctorId, date, view) returns; also in
\* the render that follows a selection change and comes before the effect.
C11_ViewShowsCurrentSelection ==
    (hpc # "crashed" /\ shown.view.kind # "none") =>
        /\ shown.view.kind = view
        /\ Len(shown.view.appointments)
             = Len(QueryResult(CallFor(selectedDoctorId, selectedDate, view)))
        /\ Elements(shown.view.appointments)
             = Elements(QueryResult(CallFor(selectedDoctorId, selectedDate, view)))

=============================================================================
